---- MODULE Spec2Model ----
(***************************************************************************)
(* The NaiveBayes class of scripts/preprocessing.ipynb as a state machine. *)
(* One model object; its two methods, train and predict, are the actions.  *)
(*                                                                         *)
(* Floating point values are kept as exact fractions <<n, d>>:             *)
(*   d > 0          the finite value n/d                                   *)
(*   n > 0, d = 0   +inf   (numpy: x / 0 with x > 0)                       *)
(*   n = 0, d = 0   nan    (numpy: 0 / 0)                                  *)
(* A score  log(p0) + log(p1) + ...  is kept as the product p0 * p1 * ...  *)
(* (log is monotonic; log 0 = -inf, log inf = inf, -inf + inf = nan).      *)
(***************************************************************************)
EXTENDS Integers, Sequences, FiniteSets, TLC

\* bounds of the exploration
MaxTrains == 2
MaxPredicts == 1
MaxLabel == 1
MaxCount == 1
MaxRows == 2
MaxVocab == 2
MaxPredictRows == 1
\* the largest count in the rows that predict results are compared on
MaxVariantCount == 2
\* the callers that run predict at the same time, and the largest number of rows
\* and labels of the train calls that come before them
MaxThreads == 2
MaxConcRows == 1

Labels == 0 .. MaxLabel
Counts == 0 .. MaxCount
RowCounts == 0 .. MaxRows
VocabSizes == 0 .. MaxVocab
\* predict is also given rows longer than any training vocabulary
PredictWidths == 0 .. MaxVocab + 1

\* the fields of the object; last: the latest call, its arguments and its outcome;
\* contract_kept: every train call so far was given N >= 1 rows, N labels and V >= 1;
\* threads: the locals of each predict call that runs step by step
VARIABLES class_prior, likelihood, classes, class_word_counts, vocab_size,
          last, contract_kept, ntrain, npredict, threads

vars == <<class_prior, likelihood, classes, class_word_counts, vocab_size,
          last, contract_kept, ntrain, npredict, threads>>

\* ---------------------------------------------------------------- inputs

\* a numpy 2-d array of shape (n, v); a[i][j+1] is X[i-1][j]
Matrix(n, v) == { [n |-> n, v |-> v, a |-> a] : a \in [1 .. n -> [1 .. v -> Counts]] }

ScenarioX == [n |-> 2, v |-> 2, a |-> << <<2, 0>>, <<0, 3>> >>]
ScenarioY == <<0, 1>>

LabelSeqs == UNION { [1 .. k -> Labels] : k \in RowCounts }

TrainX == UNION { Matrix(n, v) : n \in RowCounts, v \in VocabSizes }

TrainInputs == (TrainX \X LabelSeqs) \cup { <<ScenarioX, ScenarioY>> }

PredictInputs == Matrix(0, 0) \cup UNION { Matrix(n, v) : n \in 1 .. MaxPredictRows, v \in PredictWidths }

NoMatrix == [n |-> 0, v |-> 0, a |-> << >>]

\* the preconditions the specification puts on the arguments of train
ValidTrainArgs(X, Y) == Len(Y) >= 1 /\ X.n = Len(Y) /\ X.v >= 1

\* ---------------------------------------------------------------- floats

Rat(n, d) == <<n, d>>
IsNan(r) == r[1] = 0 /\ r[2] = 0
RatMul(r, s) == <<r[1] * s[1], r[2] * s[2]>>
RatDivInt(r, k) == <<r[1], r[2] * k>>
\* r > s as IEEE compares: false whenever one side is nan
RatGt(r, s) == ~IsNan(r) /\ ~IsNan(s) /\ r[1] * s[2] > s[1] * r[2]

\* ---------------------------------------------------------------- numpy

RECURSIVE SortedSeq(_)
SortedSeq(S) ==
    IF S = {} THEN << >>
    ELSE LET m == CHOOSE x \in S : \A y \in S : x <= y
         IN  <<m>> \o SortedSeq(S \ {m})

\* np.unique(Y)
Unique(Y) == SortedSeq({ Y[i] : i \in 1 .. Len(Y) })

RECURSIVE SumSeq(_)
SumSeq(s) == IF s = << >> THEN 0 ELSE s[1] + SumSeq(Tail(s))

\* np.sum(Y == c): the count of the class, not divided by N
SumEq(Y, c) == Rat(Cardinality({ i \in 1 .. Len(Y) : Y[i] = c }), 1)

\* np.mean(Y == c)
MeanEq(Y, c) == Rat(Cardinality({ i \in 1 .. Len(Y) : Y[i] = c }), Len(Y))

\* X[Y == c]: the rows of X whose label is c (the lengths agree)
ClassSample(X, Y, c) == SelectSeq([i \in 1 .. X.n |-> <<X.a[i], Y[i]>>], LAMBDA p : p[2] = c)

\* np.sum(class_sample)
SumAll(cs) == SumSeq([i \in 1 .. Len(cs) |-> SumSeq(cs[i][1])])

\* np.sum(class_sample[:word_idx]), the slice that the comment in train writes:
\* all entries of the first word_idx rows
SumRowSlice(cs, word_idx) ==
    SumSeq([i \in 1 .. (IF word_idx < Len(cs) THEN word_idx ELSE Len(cs)) |-> SumSeq(cs[i][1])])

\* np.sum(class_sample[:, word_idx])
SumColumn(cs, word_idx) == SumSeq([i \in 1 .. Len(cs) |-> cs[i][1][word_idx + 1]])

\* ---------------------------------------------------------------- dicts

\* class_prior is a dict: a sequence of entries in insertion order
PriorKeys(cp) == { cp[i].c : i \in 1 .. Len(cp) }
PriorOf(cp, c) == (CHOOSE i \in 1 .. Len(cp) : cp[i].c = c)
PriorGet(cp, c) == cp[PriorOf(cp, c)].p
\* self.class_prior.setdefault(c, p): a key the dict already has keeps its value
PriorSetDefault(cp, c, p) ==
    IF c \in PriorKeys(cp) THEN cp ELSE Append(cp, [c |-> c, p |-> p])

PriorSet(cp, c, p) ==
    IF c \in PriorKeys(cp)
    THEN [i \in 1 .. Len(cp) |-> IF cp[i].c = c THEN [c |-> c, p |-> p] ELSE cp[i]]
    ELSE Append(cp, [c |-> c, p |-> p])

FunSet(f, k, v) == [x \in DOMAIN f \cup {k} |-> IF x = k THEN v ELSE f[x]]

\* defaultdict(lambda: 0), empty
EmptyInner == [dflt |-> TRUE, d |-> << >>]

\* ---------------------------------------------------------------- the model

Model(cp, lk, cl, cw, vs) ==
    [class_prior |-> cp, likelihood |-> lk, classes |-> cl,
     class_word_counts |-> cw, vocab_size |-> vs]

\* NaiveBayes.__init__
NewModel == Model(<< >>, << >>, << >>, << >>, 0)

\* train, first loop: for c in self.classes: self.class_prior[c] = np.mean(Y == c)
RECURSIVE PriorLoop(_, _, _, _)
PriorLoop(cp, cls, i, Y) ==
    IF i > Len(cls) THEN cp
    ELSE PriorLoop(PriorSet(cp, cls[i], MeanEq(Y, cls[i])), cls, i + 1, Y)

\* train, the word_idx loop: self.likelihood[c][word_idx] = np.sum(...) + 1
RECURSIVE CountLoop(_, _, _, _)
CountLoop(d, cs, word_idx, V) ==
    IF word_idx >= V THEN d
    ELSE CountLoop(FunSet(d, word_idx, Rat(SumColumn(cs, word_idx) + 1, 1)), cs, word_idx + 1, V)

\* train, the dict comprehension: every key of likelihood[c] is divided
Normalise(d, denom) == [k \in DOMAIN d |-> RatDivInt(d[k], denom)]

\* train, second loop, the body for one class (no error)
TrainClass(m, X, Y, c) ==
    LET cs    == ClassSample(X, Y, c)
        cnt   == SumAll(cs)
        inner == IF c \in DOMAIN m.likelihood THEN m.likelihood[c].d ELSE << >>
        raw   == CountLoop(inner, cs, 0, m.vocab_size)
        norm  == Normalise(raw, cnt + m.vocab_size)
    IN  [m EXCEPT !.class_word_counts = FunSet(m.class_word_counts, c, cnt),
                  !.likelihood = FunSet(m.likelihood, c, [dflt |-> FALSE, d |-> norm])]

\* train, second loop; X[Y == c] raises IndexError when the mask length is not X.shape[0]
RECURSIVE LikelihoodLoop(_, _, _, _)
LikelihoodLoop(m, X, Y, i) ==
    IF i > Len(m.classes) THEN [m |-> m, err |-> "none"]
    ELSE IF Len(Y) # X.n THEN [m |-> m, err |-> "IndexError"]
    ELSE LikelihoodLoop(TrainClass(m, X, Y, m.classes[i]), X, Y, i + 1)

\* NaiveBayes.train
TrainResult(m, X, Y) ==
    LET cls == Unique(Y)
        m1  == [m EXCEPT !.classes = cls, !.vocab_size = X.v]
        m2  == [m1 EXCEPT !.class_prior = PriorLoop(m1.class_prior, cls, 1, Y)]
    IN  LikelihoodLoop(m2, X, Y, 1)

\* predict: self.likelihood[c][word_idx] on defaultdict-of-defaultdict / plain dict
\* result: the likelihood after the read, the value read, and the error
LikRead(lk, c, word_idx) ==
    LET inner == IF c \in DOMAIN lk THEN lk[c] ELSE EmptyInner
    IN  IF word_idx \in DOMAIN inner.d
        THEN [lk |-> FunSet(lk, c, inner), val |-> inner.d[word_idx], err |-> "none"]
        ELSE IF inner.dflt
        THEN [lk |-> FunSet(lk, c, [inner EXCEPT !.d = FunSet(inner.d, word_idx, Rat(0, 1))]),
              val |-> Rat(0, 1), err |-> "none"]
        ELSE [lk |-> FunSet(lk, c, inner), val |-> Rat(0, 1), err |-> "KeyError"]

RECURSIVE RatPow(_, _)
RatPow(r, k) == IF k = 0 THEN <<1, 1>> ELSE RatMul(r, RatPow(r, k - 1))

\* the textbook multinomial update: log_prob += x[word_idx] * np.log(...)
RECURSIVE WordLoopWeighted(_, _, _, _, _)
WordLoopWeighted(lk, c, x, word_idx, log_prob) ==
    IF word_idx >= Len(x) THEN [lk |-> lk, score |-> log_prob, err |-> "none"]
    ELSE IF x[word_idx + 1] > 0
    THEN LET r == LikRead(lk, c, word_idx)
         IN  IF r.err # "none" THEN [lk |-> lk, score |-> log_prob, err |-> r.err]
             ELSE WordLoopWeighted(r.lk, c, x, word_idx + 1,
                                   RatMul(log_prob, RatPow(r.val, x[word_idx + 1])))
    ELSE WordLoopWeighted(lk, c, x, word_idx + 1, log_prob)

\* predict, the word_idx loop of one class
RECURSIVE WordLoop(_, _, _, _, _)
WordLoop(lk, c, x, word_idx, log_prob) ==
    IF word_idx >= Len(x) THEN [lk |-> lk, score |-> log_prob, err |-> "none"]
    ELSE IF x[word_idx + 1] > 0
    THEN LET r == LikRead(lk, c, word_idx)
         IN  IF r.err # "none" THEN [lk |-> lk, score |-> log_prob, err |-> r.err]
             ELSE WordLoop(r.lk, c, x, word_idx + 1, RatMul(log_prob, r.val))
    ELSE WordLoop(lk, c, x, word_idx + 1, log_prob)

\* predict, the class loop of one row: class_probs as a sequence in insertion order
RECURSIVE ClassLoop(_, _, _, _, _)
ClassLoop(lk, cp, x, i, class_probs) ==
    IF i > Len(cp) THEN [lk |-> lk, class_probs |-> class_probs, err |-> "none"]
    ELSE LET r == WordLoop(lk, cp[i].c, x, 0, cp[i].p)
         IN  IF r.err # "none" THEN [lk |-> r.lk, class_probs |-> class_probs, err |-> r.err]
             ELSE ClassLoop(r.lk, cp, x, i + 1, Append(class_probs, [c |-> cp[i].c, s |-> r.score]))

\* min in place of max
RECURSIVE MinLoop(_, _, _)
MinLoop(class_probs, i, best) ==
    IF i > Len(class_probs) THEN best
    ELSE MinLoop(class_probs, i + 1,
                 IF RatGt(class_probs[best].s, class_probs[i].s) THEN i ELSE best)

\* max(class_probs, key=class_probs.get): the first key whose score no later key exceeds
RECURSIVE MaxLoop(_, _, _)
MaxLoop(class_probs, i, best) ==
    IF i > Len(class_probs) THEN best
    ELSE MaxLoop(class_probs, i + 1,
                 IF RatGt(class_probs[i].s, class_probs[best].s) THEN i ELSE best)

ArgMax(class_probs) == class_probs[MaxLoop(class_probs, 2, 1)].c

\* predict, the row loop
RECURSIVE RowLoop(_, _, _, _, _)
RowLoop(lk, cp, X, i, predictions) ==
    IF i > X.n THEN [lk |-> lk, out |-> predictions, err |-> "none"]
    ELSE LET r == ClassLoop(lk, cp, X.a[i], 1, << >>)
         IN  IF r.err # "none" THEN [lk |-> r.lk, out |-> << >>, err |-> r.err]
             ELSE IF r.class_probs = << >> THEN [lk |-> r.lk, out |-> << >>, err |-> "ValueError"]
             ELSE RowLoop(r.lk, cp, X, i + 1, Append(predictions, ArgMax(r.class_probs)))

\* predictions kept from the call before instead of predictions = []
PredictResultAccumulating(m, X) == RowLoop(m.likelihood, m.class_prior, X, 1, last.out)

\* NaiveBayes.predict
PredictResult(m, X) == RowLoop(m.likelihood, m.class_prior, X, 1, << >>)

\* ---------------------------------------------------------------- the state machine

Self == Model(class_prior, likelihood, classes, class_word_counts, vocab_size)

Threads == 1 .. MaxThreads

\* no predict call running; alone and before are filled in when a call starts
IdleThread ==
    [st |-> "idle", X |-> NoMatrix, i |-> 0, k |-> 0, word_idx |-> 0,
     log_prob |-> Rat(1, 1), class_probs |-> << >>, predictions |-> << >>,
     err |-> "none", alone |-> [out |-> << >>, err |-> "none"], before |-> << >>]

Init ==
    /\ class_prior = NewModel.class_prior
    /\ likelihood = NewModel.likelihood
    /\ classes = NewModel.classes
    /\ class_word_counts = NewModel.class_word_counts
    /\ vocab_size = NewModel.vocab_size
    /\ last = [op |-> "init", X |-> NoMatrix, Y |-> << >>, err |-> "none", out |-> << >>]
    /\ contract_kept = TRUE
    /\ ntrain = 0
    /\ npredict = 0
    /\ threads = [t \in Threads |-> IdleThread]

Train ==
    /\ ntrain < MaxTrains
    /\ \E in \in TrainInputs :
       \E r \in { TrainResult(Self, in[1], in[2]) } :
         /\ class_prior' = r.m.class_prior
         /\ likelihood' = r.m.likelihood
         /\ classes' = r.m.classes
         /\ class_word_counts' = r.m.class_word_counts
         /\ vocab_size' = r.m.vocab_size
         /\ last' = [op |-> "train", X |-> in[1], Y |-> in[2], err |-> r.err, out |-> << >>]
         /\ contract_kept' = (contract_kept /\ ValidTrainArgs(in[1], in[2]))
    /\ ntrain' = ntrain + 1
    /\ UNCHANGED <<npredict, threads>>

Predict ==
    /\ npredict < MaxPredicts
    /\ \E X \in PredictInputs :
       \E r \in { PredictResult(Self, X) } :
         /\ likelihood' = r.lk
         /\ last' = [op |-> "predict", X |-> X, Y |-> << >>, err |-> r.err, out |-> r.out]
    /\ npredict' = npredict + 1
    /\ UNCHANGED <<class_prior, classes, class_word_counts, vocab_size, contract_kept, ntrain,
                   threads>>

Next == Train \/ Predict

Spec == Init /\ [][Next]_vars

\* ---------------------------------------------------------------- predict, step by step

\* the train calls before the concurrent predict calls: at most MaxConcRows rows and labels
ConcTrainInputs ==
    { in \in TrainInputs : in[1].n <= MaxConcRows /\ Len(in[2]) <= MaxConcRows }

\* the rows given to the concurrent predict calls have the length V of the model
ConcPredictInputs == { X \in PredictInputs : X.n >= 1 /\ X.v = vocab_size }

\* log_prob = np.log(self.class_prior[c]) for the k-th key of class_prior
EnterClass(cp, k) == IF k <= Len(cp) THEN cp[k].p ELSE Rat(1, 1)

\* train, called while no predict call is running (callers serialize train)
TrainSerialized ==
    /\ ntrain < MaxTrains
    /\ \A t \in Threads : threads[t].st = "idle"
    /\ \E in \in ConcTrainInputs :
       \E r \in { TrainResult(Self, in[1], in[2]) } :
         /\ class_prior' = r.m.class_prior
         /\ likelihood' = r.m.likelihood
         /\ classes' = r.m.classes
         /\ class_word_counts' = r.m.class_word_counts
         /\ vocab_size' = r.m.vocab_size
         /\ last' = [op |-> "train", X |-> in[1], Y |-> in[2], err |-> r.err, out |-> << >>]
         /\ contract_kept' = (contract_kept /\ ValidTrainArgs(in[1], in[2]))
    /\ ntrain' = ntrain + 1
    /\ UNCHANGED <<npredict, threads>>

\* a caller enters predict(X): predictions = [], the first row, the first class;
\* alone is what the call returns when no other call runs, before is self.likelihood
\* as the caller found it (callers are taken in order: they are interchangeable)
PredictStart(t) ==
    /\ ntrain >= 1
    /\ threads[t].st = "idle"
    /\ t > 1 => threads[t - 1].st # "idle"
    /\ \E X \in ConcPredictInputs :
       \E r \in { PredictResult(Self, X) } :
         threads' = [threads EXCEPT ![t] =
                        [st |-> "run", X |-> X, i |-> 1, k |-> 1, word_idx |-> 0,
                         log_prob |-> EnterClass(class_prior, 1), class_probs |-> << >>,
                         predictions |-> << >>, err |-> "none",
                         alone |-> [out |-> r.out, err |-> r.err], before |-> likelihood]]
    /\ UNCHANGED <<class_prior, likelihood, classes, class_word_counts, vocab_size,
                   last, contract_kept, ntrain, npredict>>

\* one iteration of the word_idx loop of caller t: the read of
\* self.likelihood[c][word_idx] when the term is present in the row
PredictWord(t) ==
    LET T == threads[t] IN
    /\ T.st = "run" /\ T.i <= T.X.n /\ T.k <= Len(class_prior)
    /\ T.word_idx < Len(T.X.a[T.i])
    /\ IF T.X.a[T.i][T.word_idx + 1] > 0
       THEN \E r \in { LikRead(likelihood, class_prior[T.k].c, T.word_idx) } :
              IF r.err # "none"
              THEN /\ threads' = [threads EXCEPT ![t].st = "done", ![t].err = r.err,
                                                  ![t].predictions = << >>]
                   /\ UNCHANGED likelihood
              ELSE /\ likelihood' = r.lk
                   /\ threads' = [threads EXCEPT ![t].log_prob = RatMul(T.log_prob, r.val),
                                                  ![t].word_idx = T.word_idx + 1]
       ELSE /\ threads' = [threads EXCEPT ![t].word_idx = T.word_idx + 1]
            /\ UNCHANGED likelihood
    /\ UNCHANGED <<class_prior, classes, class_word_counts, vocab_size,
                   last, contract_kept, ntrain, npredict>>

\* class_probs[c] = log_prob, and the next key of class_prior
PredictClass(t) ==
    LET T == threads[t] IN
    /\ T.st = "run" /\ T.i <= T.X.n /\ T.k <= Len(class_prior)
    /\ T.word_idx >= Len(T.X.a[T.i])
    /\ threads' = [threads EXCEPT
                      ![t].class_probs = Append(T.class_probs,
                                                [c |-> class_prior[T.k].c, s |-> T.log_prob]),
                      ![t].k = T.k + 1, ![t].word_idx = 0,
                      ![t].log_prob = EnterClass(class_prior, T.k + 1)]
    /\ UNCHANGED <<class_prior, likelihood, classes, class_word_counts, vocab_size,
                   last, contract_kept, ntrain, npredict>>

\* predictions.append(max(class_probs, key=class_probs.get)), and the next row
PredictRow(t) ==
    LET T == threads[t] IN
    /\ T.st = "run" /\ T.i <= T.X.n /\ T.k > Len(class_prior)
    /\ IF T.class_probs = << >>
       THEN threads' = [threads EXCEPT ![t].st = "done", ![t].err = "ValueError",
                                       ![t].predictions = << >>]
       ELSE threads' = [threads EXCEPT
                          ![t].predictions = Append(T.predictions, ArgMax(T.class_probs)),
                          ![t].i = T.i + 1, ![t].k = 1, ![t].word_idx = 0,
                          ![t].log_prob = EnterClass(class_prior, 1),
                          ![t].class_probs = << >>]
    /\ UNCHANGED <<class_prior, likelihood, classes, class_word_counts, vocab_size,
                   last, contract_kept, ntrain, npredict>>

\* return np.array(predictions)
PredictReturn(t) ==
    /\ threads[t].st = "run" /\ threads[t].i > threads[t].X.n
    /\ threads' = [threads EXCEPT ![t].st = "done"]
    /\ UNCHANGED <<class_prior, likelihood, classes, class_word_counts, vocab_size,
                   last, contract_kept, ntrain, npredict>>

NextConc ==
    \/ TrainSerialized
    \/ \E t \in Threads : PredictStart(t)
    \/ \E t \in Threads : PredictWord(t)
    \/ \E t \in Threads : PredictClass(t)
    \/ \E t \in Threads : PredictRow(t)
    \/ \E t \in Threads : PredictReturn(t)

SpecConc == Init /\ [][NextConc]_vars

\* ---------------------------------------------------------------- notions of the claims

\* the same number (nan equals nothing)
RatEq(r, s) == ~IsNan(r) /\ ~IsNan(s) /\ r[1] * s[2] = s[1] * r[2]
RatAdd(r, s) == <<r[1] * s[2] + s[1] * r[2], r[2] * s[2]>>

RECURSIVE SumOver(_, _)
SumOver(S, f) ==
    IF S = {} THEN 0
    ELSE LET k == CHOOSE x \in S : TRUE IN f[k] + SumOver(S \ {k}, f)

RECURSIVE RatSumOver(_, _)
RatSumOver(S, f) ==
    IF S = {} THEN <<0, 1>>
    ELSE LET k == CHOOSE x \in S : TRUE IN RatAdd(f[k], RatSumOver(S \ {k}, f))

RECURSIVE RatProdOver(_, _)
RatProdOver(S, f) ==
    IF S = {} THEN <<1, 1>>
    ELSE LET k == CHOOSE x \in S : TRUE IN RatMul(f[k], RatProdOver(S \ {k}, f))

\* the distinct labels of Y, the rows labelled c, r(c, j) and Class Term Total[c]
DistinctLabels(Y) == { Y[i] : i \in 1 .. Len(Y) }
RowsLabelled(Y, c) == { i \in 1 .. Len(Y) : Y[i] = c }
RawCount(X, Y, c, j) == SumOver(RowsLabelled(Y, c), [i \in 1 .. X.n |-> X.a[i][j + 1]])
ClassTermTotal(X, Y, c) == SumOver(0 .. X.v - 1, [j \in 0 .. X.v - 1 |-> RawCount(X, Y, c, j)])

TrainedParallel == last.op = "train" /\ Len(last.Y) = last.X.n

\* the score of class c for row x in the current state:
\* Class Prior[c] times the likelihoods of the terms present in x
PresentTerms(x) == { j \in 0 .. Len(x) - 1 : x[j + 1] > 0 }
ScoreOf(c, x) ==
    RatMul(PriorGet(class_prior, c),
           RatProdOver(PresentTerms(x), IF c \in DOMAIN likelihood THEN likelihood[c].d ELSE << >>))

\* every class that has a prior has a likelihood for each of 0 .. V-1 and a total
FullyTrained(m) ==
    \A c \in PriorKeys(m.class_prior) :
        /\ c \in DOMAIN m.likelihood
        /\ 0 .. m.vocab_size - 1 \subseteq DOMAIN m.likelihood[c].d
        /\ c \in DOMAIN m.class_word_counts

PredictOk == last.op = "predict" /\ last.err = "none"

\* ---------------------------------------------------------------- claims

C2_ArgMax ==
    PredictOk =>
        /\ Len(last.out) = last.X.n
        /\ \A i \in 1 .. Len(last.out) :
            /\ last.out[i] \in PriorKeys(class_prior)
            /\ \A c \in PriorKeys(class_prior) :
                ~RatGt(ScoreOf(c, last.X.a[i]), ScoreOf(last.out[i], last.X.a[i]))

\* the scenario of the specification: trained on [[2,0],[0,3]], [0,1]; [[1,0]] gives 0
C2_Witness ==
    /\ PredictOk /\ ntrain = 1
    /\ class_prior = << [c |-> 0, p |-> <<1, 2>>], [c |-> 1, p |-> <<1, 2>>] >>
    /\ likelihood[0].d[0] = <<3, 4>> /\ likelihood[1].d[0] = <<1, 5>>
    /\ last.X.a = << <<1, 0>> >>
    /\ last.out = <<0>>

\* C3: after train(X2, Y2) the object is what a new object is after train(X2, Y2):
\* the same classes, priors, likelihoods, totals, and the same predict result on
\* every input.
\* (Here for train calls that were all given N >= 1 rows, N labels and V >= 1.)
C3_TrainReplacesState ==
    (last.op = "train" /\ contract_kept) =>
        LET fresh == TrainResult(NewModel, last.X, last.Y).m IN
        /\ classes = fresh.classes
        /\ class_prior = fresh.class_prior
        /\ likelihood = fresh.likelihood
        /\ class_word_counts = fresh.class_word_counts
        /\ \A X \in PredictInputs :
             LET a == PredictResult(Self, X)
                 b == PredictResult(fresh, X)
             IN  a.out = b.out /\ a.err = b.err

\* C4: predict on an object on which train was never called fails (with any error at
\* all) and returns no labels.
C4_UntrainedPredictFails ==
    (last.op = "predict" /\ ntrain = 0) => last.err # "none"

\* C5: predict on a trained model fails when a row is shorter or longer than V.
C5_WrongWidthPredictFails ==
    (/\ last.op = "predict" /\ ntrain >= 1 /\ contract_kept
     /\ \E i \in 1 .. last.X.n : Len(last.X.a[i]) # vocab_size)
    => last.err # "none"

\* C6: train with N >= 1 labels fails when the number of rows is not N, or V = 0.
\* (X is a 2-d array: a row length is X.shape[1], which train takes as V.)
C6_InvalidTrainFails ==
    (/\ last.op = "train" /\ Len(last.Y) >= 1
     /\ (Len(last.Y) # last.X.n \/ last.X.v = 0))
    => last.err # "none"

\* C7: in every state between calls the model is untrained or fully trained: every
\* class with a prior has a likelihood for each term index 0 .. V-1 and a total.
C7_NoPartialState == FullyTrained(Self)

\* C8: when several classes of the class set share the maximal score of a row,
\* predict returns the one that comes first in self.classes.
MaxClasses(x) ==
    { c \in PriorKeys(class_prior) :
        \A e \in PriorKeys(class_prior) : ~RatGt(ScoreOf(e, x), ScoreOf(c, x)) }
PositionIn(seq, c) == CHOOSE i \in 1 .. Len(seq) : seq[i] = c

C8_TieFirstInClassSet ==
    (PredictOk /\ contract_kept) =>
        \A i \in 1 .. Len(last.out) :
            LET M == MaxClasses(last.X.a[i]) IN
            (/\ Len(last.X.a[i]) = vocab_size
             /\ Cardinality(M) > 1 /\ M \subseteq { classes[k] : k \in 1 .. Len(classes) })
            => \A c \in M : PositionIn(classes, last.out[i]) <= PositionIn(classes, c)

\* C9: after train calls that were all given N >= 1 rows, N labels and V >= 1, the
\* likelihood values stored for each class of the class set sum to 1.
C9_LikelihoodSumsToOne ==
    (last.op = "train" /\ contract_kept) =>
        \A k \in 1 .. Len(classes) :
            LET d == likelihood[classes[k]].d
                s == RatSumOver(DOMAIN d, d)
            IN  RatEq(s, <<1, 1>>)

\* C10: after train(X, Y) with N >= 1 labels, for every class c of Y,
\* class_prior[c] = (number of labels equal to c) / N, a value in (0, 1].
C10_PriorIsFrequency ==
    (last.op = "train" /\ Len(last.Y) >= 1) =>
        \A c \in DistinctLabels(last.Y) :
            /\ c \in PriorKeys(class_prior)
            /\ RatEq(PriorGet(class_prior, c),
                     <<Cardinality(RowsLabelled(last.Y, c)), Len(last.Y)>>)
            /\ RatGt(PriorGet(class_prior, c), <<0, 1>>)
            /\ ~RatGt(PriorGet(class_prior, c), <<1, 1>>)

\* a retraining that changes the prior of a class the model already had
C10_Witness ==
    /\ last.op = "train" /\ ntrain = 2 /\ last.Y = <<0, 1>>
    /\ class_prior = << [c |-> 1, p |-> <<1, 2>>], [c |-> 0, p |-> <<1, 2>>] >>

\* the Class Set of the latest train call, as a set
ClassSet == { classes[k] : k \in 1 .. Len(classes) }

\* C11: in every state after a train call that was given N >= 1 labels (the class
\* set is not empty), the priors the model holds for the classes of the class set
\* sum to 1.
C11_PriorsSumToOne ==
    classes # << >> =>
        /\ ClassSet \subseteq PriorKeys(class_prior)
        /\ RatEq(RatSumOver(ClassSet, [c \in ClassSet |-> PriorGet(class_prior, c)]), <<1, 1>>)

\* a retraining with fewer classes: the dict still holds the prior of class 1
C11_Witness ==
    /\ last.op = "train" /\ ntrain = 2 /\ contract_kept
    /\ classes = <<0>>
    /\ class_prior = << [c |-> 0, p |-> <<1, 1>>], [c |-> 1, p |-> <<1, 2>>] >>

\* C12: every likelihood value a completed predict call has read (for each row, each
\* class with a prior, each term present in the row) is strictly positive.
C12_ReadsArePositive ==
    PredictOk =>
        \A i \in 1 .. last.X.n : \A c \in PriorKeys(class_prior) :
            \A j \in PresentTerms(last.X.a[i]) :
                /\ c \in DOMAIN likelihood /\ j \in DOMAIN likelihood[c].d
                /\ RatGt(likelihood[c].d[j], <<0, 1>>)

\* C13: a predict step leaves classes, class_prior, likelihood, class_word_counts
\* and vocab_size as they were.
C13_PredictHasNoSideEffects ==
    [][npredict' # npredict =>
         UNCHANGED <<classes, class_prior, likelihood, class_word_counts, vocab_size>>]_vars

\* the matrices with the shape of X and the same terms present in each row
SamePresence(X, Z) ==
    \A i \in 1 .. X.n : \A j \in 1 .. X.v : (Z.a[i][j] > 0) <=> (X.a[i][j] > 0)
Variants(X) ==
    { Z \in [n : {X.n}, v : {X.v}, a : [1 .. X.n -> [1 .. X.v -> 0 .. MaxVariantCount]]] :
        SamePresence(X, Z) }

\* C14: a predict call that returned labels for X returns the same labels for every
\* X' in which the same terms are present with other counts.
C14_PresenceOnly ==
    PredictOk =>
        \A Z \in Variants(last.X) :
            LET r == PredictResult(Self, Z)
            IN  r.err = "none" /\ r.out = last.out

\* after a retraining, a row of length V = 2 with both terms present, two classes
C14_Witness ==
    /\ PredictOk /\ contract_kept /\ ntrain = 2
    /\ vocab_size = 2 /\ Len(classes) = 2
    /\ last.X.a = << <<1, 1>> >>
    /\ [n |-> 1, v |-> 2, a |-> << <<1, 2>> >>] \in Variants(last.X)
    /\ Len(last.out) = 1

\* C16: predict called again with the same input right after a predict call gives
\* the same outcome and the same labels.
C16_PredictIdempotent ==
    last.op = "predict" =>
        LET r == PredictResult(Self, last.X)
        IN  r.err = last.err /\ r.out = last.out

\* a trained model, a row of length V, a label returned
C16_Witness ==
    /\ PredictOk /\ contract_kept /\ ntrain >= 1
    /\ last.X.n = 1 /\ last.X.v = vocab_size
    /\ last.out = <<1>>

\* C18: every label predict returns is a class of the latest train call.
\* (Here for train calls that were all given N >= 1 rows, N labels and V >= 1, and
\* rows of length V.)
C18_LabelInClassSet ==
    (PredictOk /\ contract_kept /\ last.X.v = vocab_size) =>
        \A i \in 1 .. Len(last.out) : last.out[i] \in ClassSet

\* the latest train call was given N >= 1 rows, N labels and V >= 1 and returned
LatestTrainOk == last.op = "train" /\ last.err = "none" /\ ValidTrainArgs(last.X, last.Y)

\* what C15 says of the predict calls that have returned or raised
ConcurrentAsAlone ==
    \A t \in Threads : threads[t].st = "done" =>
        /\ threads[t].predictions = threads[t].alone.out
        /\ threads[t].err = threads[t].alone.err
        /\ (\A u \in Threads : threads[u].st # "run") => likelihood = threads[t].before

\* C15: on a model whose latest train call succeeded, each of the predict calls that
\* run interleaved returns what it returns when run alone, and once all of them
\* have returned self.likelihood is what each of them found when it started.
C15_ConcurrentPredict == LatestTrainOk => ConcurrentAsAlone

\* the same on a model all of whose train calls were given valid arguments
ConcurrentPredictWithinContract == (LatestTrainOk /\ contract_kept) => ConcurrentAsAlone

====
